---- MODULE Spec2Model ----
(***************************************************************************)
(* processar_prodes_para (src/prodes/prodes_para_municipios.py): one run   *)
(* of the PRODES pipeline, stage by stage.                                 *)
(*                                                                         *)
(* Tables (GeoDataFrame / DataFrame) are records                           *)
(*   [cols : set of column names, crs, index : Seq(Nat), rows : Seq(row)]  *)
(* where a row is a function from the table's columns to values.           *)
(* A geometry is a closed point set on a line: odd points are unit cells   *)
(* of 1 km2 (1,000,000 m2 in EPSG:5880), even points are the vertices      *)
(* between cells, so two polygons may overlap, merely touch in a vertex,   *)
(* or be disjoint.  Areas are whole km2.                                   *)
(***************************************************************************)
EXTENDS Integers, Sequences, FiniteSets, TLC

\* Largest number of features in the PRODES shapefile that is explored.
MaxFeatures == 3

\* line 69: para_gdf['year'] >= 2008
FloorYear == 2008
\* line 90: temp_gdf.geometry.area / 1_000_000
M2PerKm2 == 1000000

\* line 32 / 49: the state whose data is kept
Para == "PA"
\* lines 123, 128: resultado['municipio'] = 'DESCONHECIDO'
Desconhecido == "DESCONHECIDO"
\* line 98
NameAliases == <<"NM_MUN", "NOME", "NM_MUNICIP", "NOM_MUN">>
\* line 107
CodeAliases == <<"CD_MUN", "COD_MUN", "GEOCODIGO">>

\* Python's None for a table, a file that gpd.read_file cannot read, a
\* GeoDataFrame without a CRS, and municipio_col = None.
NoneTable == [none |-> TRUE]
Unreadable == [unreadable |-> TRUE]
NoCRS == "None"
NoCol == "None"
\* the missing value str.extract yields for a label that does not match
NaN == 0 - 1

Range(s) == {s[i] : i \in DOMAIN s}

(***************************************************************************)
(* Values: labels are character sequences, so that the regular expression  *)
(* is computed on them.                                                    *)
(***************************************************************************)
Digits == <<"0", "1", "2", "3", "4", "5", "6", "7", "8", "9">>
IsDigit(ch) == \E i \in DOMAIN Digits : Digits[i] = ch
DigitVal(ch) == (CHOOSE i \in DOMAIN Digits : Digits[i] = ch) - 1

Label_d2019_valid == <<"d", "2", "0", "1", "9", "_", "v", "a", "l", "i", "d">>
Label_2019 == <<"2", "0", "1", "9">>
Label_d2005 == <<"d", "2", "0", "0", "5">>
Label_d2010 == <<"d", "2", "0", "1", "0">>
Label_d20195 == <<"d", "2", "0", "1", "9", "5">>
Label_d201 == <<"d", "2", "0", "1">>
Label_D2019 == <<"D", "2", "0", "1", "9">>
Labels ==
    {Label_d2019_valid, Label_2019, Label_d2005, Label_d2010, Label_d20195,
     Label_d201, Label_D2019}

\* Geometries.  Belem covers the points 0..4 and Altamira 4..8 (they share
\* the vertex 4); Santos is a municipality of another state.
Interval(a, b) == a .. b
GeoBelem == Interval(0, 4)
GeoAltamira == Interval(4, 8)
GeoSantos == Interval(20, 24)
GeoInBelem == Interval(0, 2)
GeoInAltamira == Interval(6, 8)
GeoTouching == Interval(2, 4)
GeoStraddle == Interval(2, 6)
GeoOutside == Interval(10, 12)
FeatureGeoms == {GeoInBelem, GeoInAltamira, GeoTouching, GeoStraddle, GeoOutside}

\* alphabetical order of the municipality names, as pandas sorts group keys
NameOrder == <<"Altamira", "Belem", "Santos">>

CRS_SIRGAS == "EPSG:4674"
CRS_WGS84 == "EPSG:4326"

(***************************************************************************)
(* Input tables                                                            *)
(***************************************************************************)
RangeIndex(n) == [i \in 1 .. n |-> i - 1]

MkTable(cols, crs, rows) ==
    [cols |-> cols, crs |-> crs, index |-> RangeIndex(Len(rows)), rows |-> rows]

SeqsUpTo(S, n) == UNION {[1 .. k -> S] : k \in 0 .. n}

FeatRow(cols, st, yr, lb, ar, g) ==
    [c \in cols |->
        CASE c = "state" -> st
          [] c = "year" -> yr
          [] c = "class_name" -> lb
          [] c = "area_km" -> ar
          [] OTHER -> g]

FeatRows(cols, S, Y, L, A, G) ==
    {FeatRow(cols, st, yr, lb, ar, g) : st \in S, yr \in Y, lb \in L, ar \in A, g \in G}

FeatTables(cols, crs, rowset, n) ==
    {MkTable(cols, crs, rows) : rows \in SeqsUpTo(rowset, n)}

\* The PRODES files explored at length: every sequence of up to MaxFeatures
\* rows, varying in turn the state and year, the label, and the geometry.
ProdesByYear ==
    FeatTables({"state", "year", "area_km", "geometry"}, CRS_SIRGAS,
               FeatRows({"state", "year", "area_km", "geometry"},
                        {"PA", "SP"}, {2007, 2008, 2009}, {Label_2019}, {1},
                        {GeoInBelem}),
               MaxFeatures)
ProdesByArea ==
    FeatTables({"state", "year", "area_km", "geometry"}, CRS_SIRGAS,
               FeatRows({"state", "year", "area_km", "geometry"},
                        {"PA"}, {2008, 2009}, {Label_2019}, {1, 2}, {GeoInBelem}),
               MaxFeatures)
ProdesByLabel ==
    FeatTables({"state", "class_name", "area_km", "geometry"}, CRS_SIRGAS,
               FeatRows({"state", "class_name", "area_km", "geometry"},
                        {"PA"}, {2008}, Labels, {1}, {GeoInBelem}),
               MaxFeatures)
ProdesByGeometry ==
    FeatTables({"state", "year", "area_km", "geometry"}, CRS_SIRGAS,
               FeatRows({"state", "year", "area_km", "geometry"},
                        {"PA"}, {2008, 2009}, {Label_2019}, {3}, FeatureGeoms),
               MaxFeatures)
ProdesNoArea ==
    FeatTables({"state", "year", "geometry"}, CRS_SIRGAS,
               FeatRows({"state", "year", "geometry"},
                        {"PA"}, {2008, 2009}, {Label_2019}, {1},
                        {GeoInBelem, GeoStraddle, GeoOutside}),
               MaxFeatures)
\* a year column next to a label column whose labels do not match
ProdesYearAndLabel ==
    FeatTables({"state", "year", "class_name", "area_km", "geometry"}, CRS_SIRGAS,
               FeatRows({"state", "year", "class_name", "area_km", "geometry"},
                        {"PA", "SP"}, {2005, 2010}, {Label_2019}, {1}, {GeoInBelem}),
               MaxFeatures)
\* labels without an area_km column
ProdesLabelNoArea ==
    FeatTables({"state", "class_name", "geometry"}, CRS_SIRGAS,
               FeatRows({"state", "class_name", "geometry"},
                        {"PA", "SP"}, {2008}, {Label_d2019_valid, Label_d2005}, {1},
                        {GeoInBelem}),
               MaxFeatures)
\* no state column, or neither a year nor a label column
ProdesMissingColumns ==
    UNION {FeatTables(cols, CRS_SIRGAS,
                      FeatRows(cols, {"PA", "SP"}, {2010}, {Label_2019}, {1}, {GeoInBelem}),
                      MaxFeatures) :
           cols \in {{"year", "area_km", "geometry"},
                     {"state", "area_km", "geometry"},
                     {"state", "geometry"}}}
ProdesFull ==
    ProdesByYear \cup ProdesByArea \cup ProdesByLabel \cup ProdesByGeometry
        \cup ProdesNoArea \cup ProdesYearAndLabel \cup ProdesLabelNoArea
        \cup ProdesMissingColumns \cup {Unreadable}

\* Fixed PRODES files, with and without the area_km column and with and
\* without a CRS, against which the municipality files are varied.
ProdesSmall ==
    {MkTable(cols, crs,
             <<FeatRow(cols, "PA", 2008, Label_2019, 3, GeoInBelem),
               FeatRow(cols, "PA", yg[1], Label_2019, 3, yg[2])>>) :
        cols \in {{"state", "year", "area_km", "geometry"},
                  {"state", "year", "geometry"}},
        crs \in {CRS_SIRGAS, NoCRS},
        yg \in {<<2009, GeoStraddle>>, <<2008, GeoInAltamira>>}}

MunRow(cols, uf, name, code, g) ==
    [c \in cols |->
        CASE c = "SIGLA_UF" -> uf
          [] c \in Range(NameAliases) -> name
          [] c \in Range(CodeAliases) -> code
          [] c = "area_km" -> 7
          [] c = "year" -> 2022
          [] OTHER -> g]

Belem(cols) == MunRow(cols, "PA", "Belem", 1501402, GeoBelem)
Altamira(cols) == MunRow(cols, "PA", "Altamira", 1500602, GeoAltamira)
Santos(cols) == MunRow(cols, "SP", "Santos", 3548500, GeoSantos)
\* a second polygon (an island, say) carrying the name and code of Belem
BelemIlha(cols) == MunRow(cols, "PA", "Belem", 1501402, GeoAltamira)

IBGECols == {"SIGLA_UF", "CD_MUN", "NM_MUN", "geometry"}

\* The municipality files every PRODES file is run against.
MunicipiosSmall ==
    {Unreadable,
     MkTable(IBGECols, CRS_SIRGAS, <<Belem(IBGECols), Santos(IBGECols), Altamira(IBGECols)>>),
     MkTable(IBGECols, CRS_WGS84, <<Belem(IBGECols), Altamira(IBGECols)>>)}

\* The municipality files explored at length: every set of identifier
\* columns, with and without columns that collide with PRODES columns, and
\* every CRS against several lists of polygons.
MunicipiosBySchema ==
    {MkTable(cols, CRS_SIRGAS, <<Altamira(cols), Belem(cols)>>) :
        cols \in {{"SIGLA_UF", "geometry"} \cup ids \cup extra :
                    ids \in SUBSET (Range(NameAliases) \cup Range(CodeAliases)),
                    extra \in {{}, {"area_km"}, {"year"}}}}
MunicipiosByRows ==
    {MkTable(IBGECols, crs, rows) :
        crs \in {CRS_SIRGAS, CRS_WGS84, NoCRS},
        rows \in {<<>>, <<Santos(IBGECols)>>, <<Belem(IBGECols)>>,
                  <<Belem(IBGECols), BelemIlha(IBGECols)>>,
                  <<Belem(IBGECols), Altamira(IBGECols)>>}}
MunicipiosFull ==
    MunicipiosBySchema \cup MunicipiosByRows
        \cup {MkTable({"NM_MUN", "geometry"}, CRS_SIRGAS,
                      <<Belem({"NM_MUN", "geometry"})>>)}

\* The pairs of files a run is started on.
Scenarios == (ProdesFull \X MunicipiosSmall) \cup (ProdesSmall \X MunicipiosFull)

(***************************************************************************)
(* pandas / geopandas operations                                           *)
(***************************************************************************)
\* t[mask]: the rows whose mask is true, in their order, with their labels
BoolIndex(t, mask) ==
    LET pos == SelectSeq([i \in 1 .. Len(t.rows) |-> i], LAMBDA i : mask[i])
    IN  [cols |-> t.cols,
         crs |-> t.crs,
         index |-> [k \in 1 .. Len(pos) |-> t.index[pos[k]]],
         rows |-> [k \in 1 .. Len(pos) |-> t.rows[pos[k]]]]

\* t[name] = values, row by row
SetColumn(t, name, values) ==
    [t EXCEPT !.cols = t.cols \cup {name},
              !.rows = [i \in 1 .. Len(t.rows) |->
                          [c \in t.cols \cup {name} |->
                              IF c = name THEN values[i] ELSE t.rows[i][c]]]]

\* re.search(r'd(\d{4})', s) at position i
MatchAt(s, i) ==
    /\ i + 4 <= Len(s)
    /\ s[i] = "d"
    /\ \A k \in 1 .. 4 : IsDigit(s[i + k])

\* Series.str.extract(r'd(\d{4})'): the group of the first match, or NaN
StrExtract(s) ==
    IF \E i \in 1 .. Len(s) : MatchAt(s, i)
      THEN LET i == CHOOSE i \in 1 .. Len(s) :
                        MatchAt(s, i) /\ \A j \in 1 .. (i - 1) : ~MatchAt(s, j)
           IN  1000 * DigitVal(s[i + 1]) + 100 * DigitVal(s[i + 2])
                 + 10 * DigitVal(s[i + 3]) + DigitVal(s[i + 4])
      ELSE NaN

\* predicate='intersects': the geometries share a point (touching included)
Intersects(g, h) == g \cap h # {}

\* geometry.area in EPSG:5880, in m2
Area(g) == Cardinality({p \in g : p % 2 = 1}) * M2PerKm2

\* gpd.sjoin(L, R, how='inner', predicate='intersects'): one row per
\* intersecting pair, in the order of L; columns of both sides, those named
\* alike suffixed _left / _right, the geometry of L, and index_right.
SJoin(L, R) ==
    LET nL == Len(L.rows)
        nR == Len(R.rows)
        collide == (L.cols \cap R.cols) \ {"geometry"}
        lname(c) == IF c \in collide THEN c \o "_left" ELSE c
        rname(c) == IF c \in collide THEN c \o "_right" ELSE c
        rcols == R.cols \ {"geometry"}
        cols == {lname(c) : c \in L.cols} \cup {"index_right"} \cup {rname(c) : c \in rcols}
        all == [k \in 1 .. (nL * nR) |-> <<((k - 1) \div nR) + 1, ((k - 1) % nR) + 1>>]
        pairs == SelectSeq(all, LAMBDA p :
                    Intersects(L.rows[p[1]]["geometry"], R.rows[p[2]]["geometry"]))
        row(p) ==
            [c \in cols |->
                IF c = "index_right" THEN R.index[p[2]]
                ELSE IF \E lc \in L.cols : lname(lc) = c
                  THEN L.rows[p[1]][CHOOSE lc \in L.cols : lname(lc) = c]
                  ELSE R.rows[p[2]][CHOOSE rc \in rcols : rname(rc) = c]]
    IN  [cols |-> cols,
         crs |-> L.crs,
         index |-> [k \in 1 .. Len(pairs) |-> L.index[pairs[k][1]]],
         rows |-> [k \in 1 .. Len(pairs) |-> row(pairs[k])]]

RECURSIVE SumSeq(_)
SumSeq(s) == IF s = <<>> THEN 0 ELSE Head(s) + SumSeq(Tail(s))

\* the order pandas sorts the values of a key column in
ValLess(col, a, b) ==
    IF col \in Range(NameAliases)
      THEN (CHOOSE i \in DOMAIN NameOrder : NameOrder[i] = a)
             < (CHOOSE i \in DOMAIN NameOrder : NameOrder[i] = b)
      ELSE a < b

KeyLess(keys, k1, k2) ==
    \E n \in 1 .. Len(keys) :
        /\ \A m \in 1 .. (n - 1) : k1[m] = k2[m]
        /\ ValLess(keys[n], k1[n], k2[n])

RECURSIVE SortKeys(_, _)
SortKeys(S, keys) ==
    IF S = {} THEN <<>>
    ELSE LET m == CHOOSE x \in S : \A y \in S \ {x} : KeyLess(keys, x, y)
         IN  <<m>> \o SortKeys(S \ {m}, keys)

\* Mutant of GroupBySum: the rows are not merged per key (one row per record).
GroupBySum_NoMerge(t, keys, val) ==
    MkTable(Range(keys) \cup {val}, NoCRS,
            [n \in 1 .. Len(t.rows) |-> [c \in Range(keys) \cup {val} |-> t.rows[n][c]]])

\* t.groupby(keys)[val].sum().reset_index(): one row per distinct key, sorted
GroupBySum(t, keys, val) ==
    LET KeyOf(r) == [k \in 1 .. Len(keys) |-> r[keys[k]]]
        sorted == SortKeys({KeyOf(t.rows[i]) : i \in 1 .. Len(t.rows)}, keys)
        members(key) == SelectSeq(t.rows, LAMBDA r : KeyOf(r) = key)
        total(key) == SumSeq([i \in 1 .. Len(members(key)) |-> members(key)[i][val]])
        row(key) ==
            [c \in Range(keys) \cup {val} |->
                IF c = val THEN total(key)
                ELSE key[CHOOSE k \in 1 .. Len(keys) : keys[k] = c]]
    IN  MkTable(Range(keys) \cup {val}, NoCRS, [n \in 1 .. Len(sorted) |-> row(sorted[n])])

\* lines 97-110: the first name column present, else the first code column
FirstPresent(aliases, cols) ==
    IF \E i \in DOMAIN aliases : aliases[i] \in cols
      THEN aliases[CHOOSE i \in DOMAIN aliases :
                      aliases[i] \in cols /\ \A j \in 1 .. (i - 1) : aliases[j] \notin cols]
      ELSE NoCol

\* Mutant of ResolveMunicipioCol: the code columns are tried before the names.
ResolveMunicipioCol_CodesFirst(cols) ==
    IF FirstPresent(CodeAliases, cols) # NoCol
      THEN FirstPresent(CodeAliases, cols)
      ELSE FirstPresent(NameAliases, cols)

ResolveMunicipioCol(cols) ==
    IF FirstPresent(NameAliases, cols) # NoCol
      THEN FirstPresent(NameAliases, cols)
      ELSE FirstPresent(CodeAliases, cols)

\* Mutant of AgruparPorAno: the rows are not put under 'DESCONHECIDO'.
AgruparPorAno_NoSentinel(t) == GroupBySum(t, <<"year">>, "area_km")

\* lines 122-123 and 127-128: group by year alone, under 'DESCONHECIDO'
AgruparPorAno(t) ==
    LET g == GroupBySum(t, <<"year">>, "area_km")
    IN  SetColumn(g, "municipio", [i \in 1 .. Len(g.rows) |-> Desconhecido])

VARIABLES
    input_shapefile,   \* contents of the PRODES shapefile (or Unreadable)
    municipios_file,   \* contents of municipios_ibge/BR_Municipios_2022.shp
    pc,                \* position in processar_prodes_para
    prodes_gdf, para_gdf, municipios_para, intersec_gdf, municipio_col, resultado,
    modo,              \* the branch that assigned resultado
    ret,               \* what the call returned
    exc                \* the exception that left the call

vars ==
    <<input_shapefile, municipios_file, pc, prodes_gdf, para_gdf, municipios_para,
      intersec_gdf, municipio_col, resultado, modo, ret, exc>>

Init ==
    /\ \E sc \in Scenarios :
          /\ input_shapefile = sc[1]
          /\ municipios_file = sc[2]
    /\ pc = "load_prodes"
    /\ prodes_gdf = NoneTable
    /\ para_gdf = NoneTable
    /\ municipios_para = NoneTable
    /\ intersec_gdf = NoneTable
    /\ municipio_col = NoCol
    /\ resultado = NoneTable
    /\ modo = "none"
    /\ ret = "running"
    /\ exc = "none"

\* `return` without a value: the call ends and hands back None.
ReturnNone ==
    /\ pc' = "done"
    /\ ret' = "None"
    /\ exc' = exc

\* an exception no handler of the function catches
Raise(e) ==
    /\ pc' = "done"
    /\ ret' = ret
    /\ exc' = e

Goto(l) ==
    /\ pc' = l
    /\ ret' = ret
    /\ exc' = exc

\* lines 15-22
LoadProdes ==
    /\ pc = "load_prodes"
    /\ IF input_shapefile = Unreadable
         THEN ReturnNone /\ UNCHANGED prodes_gdf
         ELSE prodes_gdf' = input_shapefile /\ Goto("filter_state")
    /\ UNCHANGED <<input_shapefile, municipios_file, para_gdf, municipios_para,
                   intersec_gdf, municipio_col, resultado, modo>>

\* Mutant of FilterPara: the state mask is not applied.
FilterPara_KeepsAll ==
    /\ pc = "filter_state"
    /\ IF "state" \notin prodes_gdf.cols
         THEN ReturnNone /\ UNCHANGED para_gdf
         ELSE /\ para_gdf' = prodes_gdf
              /\ IF Len(para_gdf'.rows) = 0 THEN ReturnNone ELSE Goto("load_municipios")
    /\ UNCHANGED <<input_shapefile, municipios_file, prodes_gdf, municipios_para,
                   intersec_gdf, municipio_col, resultado, modo>>

\* Mutant of FilterPara: the run goes on when no feature of Para is left.
FilterPara_NoEmptyCheck ==
    /\ pc = "filter_state"
    /\ IF "state" \notin prodes_gdf.cols
         THEN ReturnNone /\ UNCHANGED para_gdf
         ELSE /\ para_gdf' = BoolIndex(prodes_gdf,
                                        [i \in 1 .. Len(prodes_gdf.rows) |->
                                            prodes_gdf.rows[i]["state"] = Para])
              /\ Goto("load_municipios")
    /\ UNCHANGED <<input_shapefile, municipios_file, prodes_gdf, municipios_para,
                   intersec_gdf, municipio_col, resultado, modo>>

\* lines 24-38
FilterPara ==
    /\ pc = "filter_state"
    /\ IF "state" \notin prodes_gdf.cols
         THEN ReturnNone /\ UNCHANGED para_gdf
         ELSE /\ para_gdf' = BoolIndex(prodes_gdf,
                                        [i \in 1 .. Len(prodes_gdf.rows) |->
                                            prodes_gdf.rows[i]["state"] = Para])
              /\ IF Len(para_gdf'.rows) = 0 THEN ReturnNone ELSE Goto("load_municipios")
    /\ UNCHANGED <<input_shapefile, municipios_file, prodes_gdf, municipios_para,
                   intersec_gdf, municipio_col, resultado, modo>>

\* lines 40-54
LoadMunicipios ==
    /\ pc = "load_municipios"
    /\ municipios_para' =
          IF municipios_file = Unreadable THEN NoneTable
          ELSE IF "SIGLA_UF" \notin municipios_file.cols THEN NoneTable
          ELSE BoolIndex(municipios_file,
                         [i \in 1 .. Len(municipios_file.rows) |->
                             municipios_file.rows[i]["SIGLA_UF"] = Para])
    /\ Goto("year")
    /\ UNCHANGED <<input_shapefile, municipios_file, prodes_gdf, para_gdf,
                   intersec_gdf, municipio_col, resultado, modo>>

\* lines 56-66
ExtrairAno ==
    /\ pc = "year"
    /\ IF "year" \in para_gdf.cols
         THEN Goto("floor") /\ UNCHANGED para_gdf
         ELSE IF "class_name" \in para_gdf.cols
           THEN IF \E i \in 1 .. Len(para_gdf.rows) :
                       StrExtract(para_gdf.rows[i]["class_name"]) = NaN
                  THEN Raise("ValueError") /\ UNCHANGED para_gdf
                  ELSE /\ para_gdf' =
                            SetColumn(para_gdf, "year",
                                      [i \in 1 .. Len(para_gdf.rows) |->
                                          StrExtract(para_gdf.rows[i]["class_name"])])
                       /\ Goto("floor")
           ELSE ReturnNone /\ UNCHANGED para_gdf
    /\ UNCHANGED <<input_shapefile, municipios_file, prodes_gdf, municipios_para,
                   intersec_gdf, municipio_col, resultado, modo>>

\* Mutant of FilterYear: the year floor is not applied.
FilterYear_Skipped ==
    /\ pc = "floor"
    /\ Goto("branch")
    /\ UNCHANGED <<input_shapefile, municipios_file, prodes_gdf, para_gdf, municipios_para,
                   intersec_gdf, municipio_col, resultado, modo>>

\* lines 68-70
FilterYear ==
    /\ pc = "floor"
    /\ para_gdf' = BoolIndex(para_gdf, [i \in 1 .. Len(para_gdf.rows) |->
                                          para_gdf.rows[i]["year"] >= FloorYear])
    /\ Goto("branch")
    /\ UNCHANGED <<input_shapefile, municipios_file, prodes_gdf, municipios_para,
                   intersec_gdf, municipio_col, resultado, modo>>

\* lines 72-78
NormalizeCRS ==
    /\ pc = "branch"
    /\ municipios_para # NoneTable
    /\ IF para_gdf.crs # municipios_para.crs
         THEN IF para_gdf.crs = NoCRS \/ municipios_para.crs = NoCRS
                THEN Raise("ValueError") /\ UNCHANGED para_gdf
                ELSE /\ para_gdf' = [para_gdf EXCEPT !.crs = municipios_para.crs]
                     /\ Goto("sjoin")
         ELSE Goto("sjoin") /\ UNCHANGED para_gdf
    /\ UNCHANGED <<input_shapefile, municipios_file, prodes_gdf, municipios_para,
                   intersec_gdf, municipio_col, resultado, modo>>

\* lines 81-83; the join may raise (a geometry GEOS rejects, say)
SpatialJoin ==
    /\ pc = "sjoin"
    /\ \E raises \in BOOLEAN :
          IF raises
            THEN Goto("except") /\ UNCHANGED intersec_gdf
            ELSE intersec_gdf' = SJoin(para_gdf, municipios_para) /\ Goto("area")
    /\ UNCHANGED <<input_shapefile, municipios_file, prodes_gdf, para_gdf,
                   municipios_para, municipio_col, resultado, modo>>

\* Mutant of CalcularArea: the area is computed from the geometry even when
\* the joined table has an area_km column.
CalcularArea_Always ==
    /\ pc = "area"
    /\ IF intersec_gdf.crs = NoCRS
         THEN Goto("except") /\ UNCHANGED intersec_gdf
         ELSE /\ intersec_gdf' =
                     SetColumn(intersec_gdf, "area_km",
                               [i \in 1 .. Len(intersec_gdf.rows) |->
                                   Area(intersec_gdf.rows[i]["geometry"]) \div M2PerKm2])
              /\ Goto("resolve")
    /\ UNCHANGED <<input_shapefile, municipios_file, prodes_gdf, para_gdf,
                   municipios_para, municipio_col, resultado, modo>>

\* lines 85-90
CalcularArea ==
    /\ pc = "area"
    /\ IF "area_km" \notin intersec_gdf.cols
         THEN IF intersec_gdf.crs = NoCRS
                THEN Goto("except") /\ UNCHANGED intersec_gdf
                ELSE /\ intersec_gdf' =
                            SetColumn(intersec_gdf, "area_km",
                                      [i \in 1 .. Len(intersec_gdf.rows) |->
                                          Area(intersec_gdf.rows[i]["geometry"])
                                              \div M2PerKm2])
                     /\ Goto("resolve")
         ELSE Goto("resolve") /\ UNCHANGED intersec_gdf
    /\ UNCHANGED <<input_shapefile, municipios_file, prodes_gdf, para_gdf,
                   municipios_para, municipio_col, resultado, modo>>

\* lines 95-110
ResolverColuna ==
    /\ pc = "resolve"
    /\ municipio_col' = ResolveMunicipioCol(intersec_gdf.cols)
    /\ Goto("groupby")
    /\ UNCHANGED <<input_shapefile, municipios_file, prodes_gdf, para_gdf,
                   municipios_para, intersec_gdf, resultado, modo>>

\* lines 112-118
AgruparMunicipio ==
    /\ pc = "groupby"
    /\ IF municipio_col # NoCol
         THEN IF {"year", "area_km"} \subseteq intersec_gdf.cols
                THEN /\ resultado' = GroupBySum(intersec_gdf, <<municipio_col, "year">>,
                                                "area_km")
                     /\ modo' = "municipio"
                     /\ Goto("save")
                ELSE Goto("except") /\ UNCHANGED <<resultado, modo>>
         ELSE ReturnNone /\ UNCHANGED <<resultado, modo>>
    /\ UNCHANGED <<input_shapefile, municipios_file, prodes_gdf, para_gdf,
                   municipios_para, intersec_gdf, municipio_col>>

\* lines 119-123
Fallback ==
    /\ pc = "except"
    /\ IF "area_km" \in para_gdf.cols
         THEN /\ resultado' = AgruparPorAno(para_gdf)
              /\ modo' = "fallback"
              /\ Goto("save")
         ELSE Raise("KeyError") /\ UNCHANGED <<resultado, modo>>
    /\ UNCHANGED <<input_shapefile, municipios_file, prodes_gdf, para_gdf,
                   municipios_para, intersec_gdf, municipio_col>>

\* lines 124-128
AgruparAno ==
    /\ pc = "branch"
    /\ municipios_para = NoneTable
    /\ IF "area_km" \in para_gdf.cols
         THEN /\ resultado' = AgruparPorAno(para_gdf)
              /\ modo' = "sem_municipios"
              /\ Goto("save")
         ELSE Raise("KeyError") /\ UNCHANGED <<resultado, modo>>
    /\ UNCHANGED <<input_shapefile, municipios_file, prodes_gdf, para_gdf,
                   municipios_para, intersec_gdf, municipio_col>>

\* lines 130-134
Save ==
    /\ pc = "save"
    /\ pc' = "done"
    /\ ret' = "resultado"
    /\ exc' = exc
    /\ UNCHANGED <<input_shapefile, municipios_file, prodes_gdf, para_gdf,
                   municipios_para, intersec_gdf, municipio_col, resultado, modo>>

Next ==
    \/ LoadProdes
    \/ FilterPara
    \/ LoadMunicipios
    \/ ExtrairAno
    \/ FilterYear
    \/ NormalizeCRS
    \/ SpatialJoin
    \/ CalcularArea
    \/ ResolverColuna
    \/ AgruparMunicipio
    \/ Fallback
    \/ AgruparAno
    \/ Save

Spec == Init /\ [][Next]_vars

(***************************************************************************)
(* Vocabulary of the properties                                            *)
(***************************************************************************)
Idx(t) == 1 .. Len(t.rows)
YearsIn(t) == {t.rows[i]["year"] : i \in Idx(t)}
Returned == pc = "done" /\ ret = "resultado"

\* the area a feature stands for: its area_km attribute, else its geometry's
FeatureArea(r) ==
    IF "area_km" \in DOMAIN r THEN r["area_km"] ELSE Area(r["geometry"]) \div M2PerKm2

\* the year of a feature of the shapefile, from whichever source the table has
SourceYear(t, r) == IF "year" \in t.cols THEN r["year"] ELSE StrExtract(r["class_name"])

\* the sum of column col over the rows of t of year y
ColumnOfYear(t, col, y) ==
    SumSeq([i \in Idx(t) |-> IF t.rows[i]["year"] = y THEN t.rows[i][col] ELSE 0])

\* tbl is the degraded-mode table of the features feats: one row per year of
\* feats, under the sentinel, with the summed area of the features of the year
IsYearTable(tbl, feats) ==
    /\ tbl # NoneTable
    /\ {"year", "area_km", "municipio"} \subseteq tbl.cols
    /\ \A y \in YearsIn(feats) : Cardinality({i \in Idx(tbl) : tbl.rows[i]["year"] = y}) = 1
    /\ \A i \in Idx(tbl) :
          /\ tbl.rows[i]["year"] \in YearsIn(feats)
          /\ tbl.rows[i]["municipio"] = Desconhecido
          /\ tbl.rows[i]["area_km"] =
                SumSeq([k \in Idx(feats) |->
                          IF feats.rows[k]["year"] = tbl.rows[i]["year"]
                            THEN FeatureArea(feats.rows[k]) ELSE 0])

\* the run is over and para_gdf holds the retained features (the year floor
\* was applied): every exit before line 69 leaves para_gdf unset, empty or
\* without a year column
RetainedNonEmpty ==
    /\ para_gdf # NoneTable
    /\ "year" \in para_gdf.cols
    /\ pc \notin {"load_municipios", "year", "floor"}
    /\ Len(para_gdf.rows) > 0

\* C1: with no municipality table (not loaded, or loading failed) and at
\* least one retained feature, the run ends by returning the degraded table:
\* one row per year of the retained features, under the sentinel, with the
\* summed area of the year's features.  Violated: without an area_km column
\* line 127 raises KeyError.
C1_DegradedRunCompletes ==
    (pc = "done" /\ RetainedNonEmpty /\ municipios_para = NoneTable)
        => /\ ret = "resultado"
           /\ exc = "none"
           /\ IsYearTable(resultado, para_gdf)

\* C2: a failure inside the guarded block (lines 81-118) is caught, the
\* handler builds the degraded table and the run returns it.  Violated:
\* without an area_km column the handler itself raises KeyError (line 122).
C2_JoinFailureRecovered ==
    [][/\ pc = "except" => (pc' = "save" /\ exc' = "none" /\ IsYearTable(resultado', para_gdf))
       /\ pc = "save" => (pc' = "done" /\ ret' = "resultado" /\ exc' = "none")]_vars

\* C3: every row of a returned table has year >= 2008 and is the year of a
\* feature of Para in the shapefile, whether years come from the year column
\* or from the label.
C3_YearFloor ==
    Returned =>
        \A i \in Idx(resultado) :
            /\ resultado.rows[i]["year"] >= FloorYear
            /\ \E k \in Idx(prodes_gdf) :
                  /\ prodes_gdf.rows[k]["state"] = Para
                  /\ SourceYear(prodes_gdf, prodes_gdf.rows[k]) = resultado.rows[i]["year"]

\* C3 witness: years extracted from labels, one of them below the floor, and
\* a table with a row returned.
C3_Witness ==
    /\ Returned
    /\ "year" \notin prodes_gdf.cols
    /\ Len(resultado.rows) > 0
    /\ \E k \in Idx(prodes_gdf) :
          /\ prodes_gdf.rows[k]["state"] = Para
          /\ StrExtract(prodes_gdf.rows[k]["class_name"]) < FloorYear

\* the column of a returned table that identifies the municipality
IdCol == IF modo = "municipio" THEN municipio_col ELSE "municipio"

\* C4: a returned table has at most one row per (municipality, year), in
\* both modes.
C4_OneRowPerKey ==
    Returned =>
        \A i, j \in Idx(resultado) :
            (/\ resultado.rows[i][IdCol] = resultado.rows[j][IdCol]
             /\ resultado.rows[i]["year"] = resultado.rows[j]["year"]) => i = j

\* C4 witness: a normal-mode table in which several joined records fell into
\* one row.
C4_Witness ==
    /\ Returned
    /\ modo = "municipio"
    /\ Len(resultado.rows) > 1
    /\ Len(intersec_gdf.rows) > Len(resultado.rows)

\* the identifiers the polygons of municipios_para carry in column c
BoundaryIds(c) == {municipios_para.rows[j][c] : j \in Idx(municipios_para)}

DegradedTable(tbl) ==
    /\ "municipio" \in tbl.cols
    /\ \A i \in Idx(tbl) : tbl.rows[i]["municipio"] = Desconhecido

NormalTable(tbl) ==
    /\ "municipio" \notin tbl.cols
    /\ municipios_para # NoneTable
    /\ municipio_col \in tbl.cols \cap municipios_para.cols
    /\ \A i \in Idx(tbl) : tbl.rows[i][municipio_col] \in BoundaryIds(municipio_col)

\* C5: resultado is assigned once, by one branch, and a returned table is of
\* one kind: all rows under the sentinel, or all rows under an identifier of
\* a polygon of municipios_para.
C5_ModesExclusive ==
    /\ [](resultado # NoneTable =>
            \/ modo = "municipio" /\ NormalTable(resultado)
            \/ modo \in {"fallback", "sem_municipios"} /\ DegradedTable(resultado))
    /\ [][modo # "none" => (modo' = modo /\ resultado' = resultado)]_vars

\* C5 witness: a degraded table with rows returned after the join had been
\* carried out on polygons of Para (the handler ran after line 82).
C5_Witness ==
    /\ Returned
    /\ modo = "fallback"
    /\ intersec_gdf # NoneTable
    /\ Len(intersec_gdf.rows) > 0
    /\ Len(resultado.rows) > 0

\* C6: after line 32 para_gdf holds exactly the rows of prodes_gdf whose
\* state is 'PA', in their order (the labels kept), and from then on neither
\* the retained features nor the joined records hold a row of another state.
C6_RegionFilter ==
    /\ pc \in {"load_municipios", "year"} =>
          /\ \A k \in 1 .. (Len(para_gdf.index) - 1) : para_gdf.index[k] < para_gdf.index[k + 1]
          /\ Range(para_gdf.index) =
                {i - 1 : i \in {n \in Idx(prodes_gdf) : prodes_gdf.rows[n]["state"] = "PA"}}
          /\ \A k \in Idx(para_gdf) : para_gdf.rows[k] = prodes_gdf.rows[para_gdf.index[k] + 1]
    /\ (para_gdf # NoneTable) => \A k \in Idx(para_gdf) : para_gdf.rows[k]["state"] = "PA"
    /\ (intersec_gdf # NoneTable) =>
          \A k \in Idx(intersec_gdf) : intersec_gdf.rows[k]["state"] = "PA"
    /\ (Returned /\ modo # "municipio" /\ "area_km" \in prodes_gdf.cols) =>
          \A i \in Idx(resultado) :
              resultado.rows[i]["area_km"] =
                  SumSeq([k \in Idx(prodes_gdf) |->
                            IF /\ prodes_gdf.rows[k]["state"] = "PA"
                               /\ SourceYear(prodes_gdf, prodes_gdf.rows[k])
                                     = resultado.rows[i]["year"]
                              THEN prodes_gdf.rows[k]["area_km"] ELSE 0])

\* C6 witness: a table with rows was returned for a shapefile that holds a
\* feature of 'SP' between two features of 'PA'.
C6_Witness ==
    /\ Returned
    /\ Len(resultado.rows) > 0
    /\ Len(prodes_gdf.rows) = 3
    /\ prodes_gdf.rows[1]["state"] = "PA"
    /\ prodes_gdf.rows[2]["state"] = "SP"
    /\ prodes_gdf.rows[3]["state"] = "PA"
    /\ para_gdf.index = <<0, 2>>

\* what the label stands for when read as 'd' and exactly four digits
ExactlyFourDigits(s) ==
    LET Hit(i) == MatchAt(s, i) /\ (i + 5 > Len(s) \/ ~IsDigit(s[i + 5]))
    IN  IF \E i \in 1 .. Len(s) : Hit(i)
          THEN LET i == CHOOSE i \in 1 .. Len(s) : Hit(i) /\ \A j \in 1 .. (i - 1) : ~Hit(j)
               IN  1000 * DigitVal(s[i + 1]) + 100 * DigitVal(s[i + 2])
                     + 10 * DigitVal(s[i + 3]) + DigitVal(s[i + 4])
          ELSE NaN

\* the features whose label holds 'd' and exactly four digits, with that year
LabelledFeatures(t) ==
    LET kept == BoolIndex(t, [i \in 1 .. Len(t.rows) |->
                                ExactlyFourDigits(t.rows[i]["class_name"]) # NaN])
    IN  SetColumn(kept, "year",
                  [i \in 1 .. Len(kept.rows) |-> ExactlyFourDigits(kept.rows[i]["class_name"])])

\* C7: without a year column and with a label column, line 62 gives each
\* feature whose label holds 'd' and exactly four digits that year, drops the
\* features whose label does not, and the run goes on to the year floor.
\* Violated: a label that does not match makes astype(int) raise ValueError.
C7_LabelExtraction ==
    [][(pc = "year" /\ "year" \notin para_gdf.cols /\ "class_name" \in para_gdf.cols)
         => /\ pc' = "floor"
            /\ exc' = "none"
            /\ para_gdf' = LabelledFeatures(para_gdf)]_vars

\* the identifier columns in the order of lines 98 and 107
Priority == NameAliases \o CodeAliases

\* C8: the column resolved at lines 97-110 is the first of NM_MUN, NOME,
\* NM_MUNICIP, NOM_MUN, CD_MUN, COD_MUN, GEOCODIGO among the columns of the
\* joined table (a function of the column set alone), and when none is there
\* the run returns without a table.
C8_ColumnPriority ==
    /\ [](pc = "groupby" =>
            IF \E i \in DOMAIN Priority : Priority[i] \in intersec_gdf.cols
              THEN \E i \in DOMAIN Priority :
                      /\ municipio_col = Priority[i]
                      /\ Priority[i] \in intersec_gdf.cols
                      /\ \A j \in 1 .. (i - 1) : Priority[j] \notin intersec_gdf.cols
              ELSE municipio_col = NoCol)
    /\ [][(pc = "groupby" /\ municipio_col = NoCol)
            => (pc' = "done" /\ ret' = "None" /\ resultado' = NoneTable)]_vars

\* C8 witness: a name column that is not the first alias wins over an
\* earlier-listed code column's rivals: NOM_MUN is chosen although CD_MUN
\* and GEOCODIGO are present.
C8_Witness ==
    /\ pc = "groupby"
    /\ municipio_col = "NOM_MUN"
    /\ {"CD_MUN", "GEOCODIGO"} \subseteq intersec_gdf.cols

\* the shapefile was read, has a state column and no feature of Para
NoMatchingRegion ==
    /\ prodes_gdf # NoneTable
    /\ "state" \in prodes_gdf.cols
    /\ \A k \in Idx(prodes_gdf) : prodes_gdf.rows[k]["state"] # Para

\* C9 as stated: with no feature of Para the run short-circuits and the
\* caller receives an empty table.  Violated: line 38 returns None.
C9_Original ==
    (NoMatchingRegion /\ pc = "done")
        => (ret = "resultado" /\ resultado # NoneTable /\ Len(resultado.rows) = 0)

\* C9 amended: with no feature of Para the run ends at line 38, no later
\* stage runs (no municipalities loaded, no join, no aggregation), and the
\* caller receives None, not a table.
C9_ShortCircuit ==
    (NoMatchingRegion /\ pc # "filter_state")
        => /\ pc = "done"
           /\ ret = "None"
           /\ exc = "none"
           /\ resultado = NoneTable
           /\ municipios_para = NoneTable
           /\ intersec_gdf = NoneTable
           /\ modo = "none"

\* C9 witness: a shapefile with features, none of Para, and the run over.
C9_Witness ==
    /\ NoMatchingRegion
    /\ Len(prodes_gdf.rows) > 1
    /\ pc = "done"
    /\ ret = "None"

\* the polygons of municipios_para the retained feature k intersects
Hits(k) ==
    {j \in Idx(municipios_para) :
        Intersects(para_gdf.rows[k]["geometry"], municipios_para.rows[j]["geometry"])}

\* a normal-mode table was returned, and line 127 applied to the same
\* retained features gives the degraded table of every year of both
ModesAgree ==
    \A y \in YearsIn(para_gdf) \cup YearsIn(resultado) :
        ColumnOfYear(AgruparPorAno(para_gdf), "area_km", y)
            = ColumnOfYear(resultado, "area_km", y)

\* C10 as stated: when no retained feature intersects more than one polygon,
\* the degraded area of each year is the sum of the normal-mode rows of the
\* year.  Violated: a feature that intersects no polygon is absent from the
\* inner join, yet counted in degraded mode.
C10_Original ==
    (/\ Returned
     /\ modo = "municipio"
     /\ "area_km" \in para_gdf.cols
     /\ \A k \in Idx(para_gdf) : Cardinality(Hits(k)) <= 1)
        => ModesAgree

\* C10 amended: when every retained feature intersects exactly one polygon
\* and both modes sum the features' area_km column (the features have it, the
\* municipalities do not), the degraded area of each year is the sum of the
\* normal-mode rows of the year.
C10_AreaConservation ==
    (/\ Returned
     /\ modo = "municipio"
     /\ "area_km" \in para_gdf.cols
     /\ "area_km" \notin municipios_para.cols
     /\ \A k \in Idx(para_gdf) : Cardinality(Hits(k)) = 1)
        => ModesAgree

\* C10 witness: features of one year in two municipalities, each inside one.
C10_Witness ==
    /\ Returned
    /\ modo = "municipio"
    /\ "area_km" \in para_gdf.cols
    /\ "area_km" \notin municipios_para.cols
    /\ \A k \in Idx(para_gdf) : Cardinality(Hits(k)) = 1
    /\ \E i, j \in Idx(resultado) :
          /\ i # j
          /\ resultado.rows[i]["year"] = resultado.rows[j]["year"]

\* the municipalities were loaded and the run is past the CRS comparison of
\* lines 76-78
PastCRSCheck ==
    /\ municipios_para # NoneTable
    /\ para_gdf # NoneTable
    /\ pc \notin {"load_municipios", "year", "floor", "branch"}

\* C11: the join is evaluated only on two tables of the same, defined CRS;
\* the municipalities keep the CRS of their file (only the features are
\* reprojected); and when either table has no CRS the run ends without a
\* join and without a table.  Violated: when neither table has a CRS line 76
\* finds them equal (None == None) and the join is carried out.
C11_JoinOnSameDefinedCRS ==
    /\ pc = "sjoin" =>
          /\ para_gdf.crs = municipios_para.crs
          /\ para_gdf.crs # NoCRS
    /\ municipios_para # NoneTable => municipios_para.crs = municipios_file.crs
    /\ (PastCRSCheck /\ (prodes_gdf.crs = NoCRS \/ municipios_para.crs = NoCRS))
          => /\ pc = "done"
             /\ ret # "resultado"
             /\ intersec_gdf = NoneTable
             /\ resultado = NoneTable

\* the polygons of municipios_para that share a point with the retained
\* feature k, be it an interior point or a single vertex
TouchedBy(k) ==
    {j \in Idx(municipios_para) :
        \E pt \in para_gdf.rows[k]["geometry"] : pt \in municipios_para.rows[j]["geometry"]}

\* the joined records of the retained feature k (sjoin keeps its label)
RecordsOf(k) == {n \in Idx(intersec_gdf) : intersec_gdf.index[n] = para_gdf.index[k]}

\* what counts as the full area of a feature: its area_km attribute or the
\* area of its whole geometry
FullAreas(r) ==
    {Area(r["geometry"]) \div M2PerKm2}
        \cup (IF "area_km" \in DOMAIN r THEN {r["area_km"]} ELSE {})

\* C12: in normal mode a retained feature that intersects k polygons
\* (touching included) has exactly k joined records, one per polygon, each
\* record counts the feature's full area, and each row of the table is the
\* sum of the records of its (municipality, year) group.  Violated: when
\* only the municipality table has an area_km column, line 86 takes it for
\* the features' area and the records carry the municipality's value.
C12_OneRecordPerBoundaryFullArea ==
    /\ intersec_gdf # NoneTable =>
          \A k \in Idx(para_gdf) :
              /\ Cardinality(RecordsOf(k)) = Cardinality(TouchedBy(k))
              /\ {intersec_gdf.rows[n]["index_right"] : n \in RecordsOf(k)}
                    = {municipios_para.index[j] : j \in TouchedBy(k)}
    /\ (pc \in {"save", "done"} /\ modo = "municipio") =>
          /\ \A k \in Idx(para_gdf) : \A n \in RecordsOf(k) :
                intersec_gdf.rows[n]["area_km"] \in FullAreas(para_gdf.rows[k])
          /\ \A i \in Idx(resultado) :
                resultado.rows[i]["area_km"] =
                    SumSeq([n \in Idx(intersec_gdf) |->
                              IF /\ intersec_gdf.rows[n][municipio_col]
                                      = resultado.rows[i][municipio_col]
                                 /\ intersec_gdf.rows[n]["year"] = resultado.rows[i]["year"]
                                THEN intersec_gdf.rows[n]["area_km"] ELSE 0])
====
